---- MODULE Spec2Model ----
(***************************************************************************)
(* A model of the REST query language of emmett_rest: the validators of    *)
(* queries/validation.py, the recursive parser of queries/parser.py and    *)
(* the request pipe of queries/helpers.py.                                 *)
(*                                                                         *)
(* Python values are records tagged by k (the Python type), predicates of the *)
(* data layer are trees (leaf comparisons, and/or/not nodes), and a call   *)
(* ends in an outcome: a returned value or a raised exception.  A Python   *)
(* set is iterated in an order the language does not fix, so a parser is   *)
(* modelled by the SET of outcomes it can have over all iteration orders.  *)
(***************************************************************************)
EXTENDS Integers, Sequences, FiniteSets, TLC

VARIABLES
    queryable_fields,   \* RESTModule._queryable_fields (a list)
    accepted_set,       \* JSONQueryPipe._accepted_set
    where_param,        \* request.query_params[query_param] of the request
    query_dict,         \* the filter document handed to parse_conditions
    dbset,              \* the inbound dataset handle (kwargs['dbset'])
    parsed,             \* what _conditions_parser returned or raised in scoped()
    response_status,    \* response.status
    next_pipe_calls,    \* the dataset handles next_pipe was called with, in order
    pc,                 \* "ready": inputs chosen, "checked": pipe_request is past
                        \* its condition, "done": the call returned
    outcome,            \* what the call returned or raised
    pipeline,           \* the pipeline the request runs through
    check_accepted,     \* self._accepted_set as pipe_request's condition read it
    compile_accepted,   \* self._accepted_set as passed to parse_conditions
    module_kwargs,      \* use_save / use_destroy as given to RESTModule.__init__
    use_save,           \* RESTModule.use_save
    use_destroy,        \* RESTModule.use_destroy
    functions_map,      \* RESTModule._functions_map
    before_update_callbacks,    \* RESTModule._before_update_callbacks
    after_create_callbacks,     \* RESTModule._after_create_callbacks
    after_update_callbacks,     \* RESTModule._after_update_callbacks
    update_request,     \* the last PUT/PATCH request served
    update_response,    \* response.status and the body kind of that request
    invoked             \* the callbacks that request invoked and its write, in order

query_vars == <<queryable_fields, accepted_set, where_param, query_dict, dbset, parsed,
                response_status, next_pipe_calls, pc, outcome, pipeline, check_accepted,
                compile_accepted>>

rest_vars == <<module_kwargs, use_save, use_destroy, functions_map,
               before_update_callbacks, after_create_callbacks, after_update_callbacks,
               update_request, update_response, invoked>>

vars == <<query_vars, rest_vars>>

(***************************************************************************)
(* Bounds of the model.                                                    *)
(***************************************************************************)
MaxInt == 1         \* integer literals are 0..MaxInt
MaxGlueLen == 2     \* longest list given to $and / $or
MaxNesting == 4     \* levels of $not around the deepest document
MaxCallbacks == 2   \* callbacks registered for one hook

(***************************************************************************)
(* Python values.                                                          *)
(***************************************************************************)
IntV(n) == [k |-> "int", int |-> n]
FloatV(tenths) == [k |-> "float", float |-> tenths]       \* 32 stands for 3.2
StrV(s) == [k |-> "str", str |-> s]
BoolV(b) == [k |-> "bool", bool |-> b]
NoneV == [k |-> "NoneType"]
DatetimeV(t) == [k |-> "datetime", datetime |-> t]
ListV(s) == [k |-> "list", list |-> s]
DictV(d) == [k |-> "dict", dict |-> d]

EmptyDict == [key \in {} |-> NoneV]
Dict1(k1, v1) == [key \in {k1} |-> v1]
Dict2(k1, v1, k2, v2) == [key \in {k1, k2} |-> IF key = k1 THEN v1 ELSE v2]
\* dict union of two dicts with disjoint keys
Merge(d1, d2) == [key \in DOMAIN d1 \cup DOMAIN d2 |-> IF key \in DOMAIN d1 THEN d1[key] ELSE d2[key]]

\* isinstance(v, types): bool is a subclass of int in Python
IsInstance(v, types) ==
    \/ v.k \in types
    \/ v.k = "bool" /\ "int" \in types

\* truth value of a Python value
ValueTruthy(v) ==
    CASE v.k = "NoneType" -> FALSE
      [] v.k = "bool" -> v.bool
      [] v.k = "int" -> v.int # 0
      [] v.k = "float" -> v.float # 0
      [] v.k = "str" -> v.str # ""
      [] v.k = "list" -> Len(v.list) > 0
      [] v.k = "dict" -> DOMAIN v.dict # {}
      [] OTHER -> TRUE

(***************************************************************************)
(* Outcomes of a call.                                                     *)
(***************************************************************************)
Ok(v) == [t |-> "ok", v |-> v]
Raise(exc, op, value) == [t |-> "raise", exc |-> exc, op |-> op, value |-> value]
QueryError(op, value) == Raise("QueryError", op, value)
\* an exception that is no QueryError; it carries no op and no value
OtherError(exc) == Raise(exc, "", NoneV)

Oks(outs) == {o \in outs : o.t = "ok"}
Raises(outs) == {o \in outs : o.t = "raise"}

(***************************************************************************)
(* Predicates of the data layer (pydal Query objects), as trees.           *)
(***************************************************************************)
NoneQ == [n |-> "None"]
Leaf(prim, field, value, cs) == [n |-> "leaf", prim |-> prim, field |-> field, value |-> value, cs |-> cs]
And(a, b) == [n |-> "and", l |-> a, r |-> b]
Or(a, b) == [n |-> "or", l |-> a, r |-> b]
Not(a) == [n |-> "not", x |-> a]

\* a Query object is truthy, None is not
Truthy(q) == q # NoneQ

(***************************************************************************)
(* queries/validation.py                                                   *)
(***************************************************************************)
AssertionError == OtherError("AssertionError")

\* str.upper() on the type names the model uses
Upper(s) ==
    CASE s \in {"point", "Point", "POINT"} -> "POINT"
      [] s \in {"line", "LINE"} -> "LINE"
      [] s \in {"linestring", "LineString", "LINESTRING"} -> "LINESTRING"
      [] s \in {"polygon", "POLYGON"} -> "POLYGON"
      [] s = "circle" -> "CIRCLE"
      [] OTHER -> s

\* _geo_helpers: the geometry constructors by upper-case type name
geo_helpers == [name \in {"POINT", "LINE", "LINESTRING", "POLYGON"} |->
    CASE name = "POINT" -> "Point"
      [] name = "POLYGON" -> "Polygon"
      [] OTHER -> "Line"]

\* mutant of tuplify_list: only the outer list becomes a tuple
tuplify_list_shallow(v) == [k |-> "tuple", tuple |-> v.list]

\* _tuplify_list: nested lists become nested tuples, order and nesting kept
RECURSIVE tuplify_list(_)
tuplify_list(v) ==
    [k |-> "tuple",
     tuple |-> [i \in 1..Len(v.list) |->
                  IF v.list[i].k = "list" THEN tuplify_list(v.list[i]) ELSE v.list[i]]]

\* geohelper(*coordinates): the geometry value the constructor builds
Geometry(helper, args) == [k |-> "geometry", geometry |-> [helper |-> helper, args |-> args.tuple]]

validate_default(v) == {Ok(v)}

\* mutant of op_validator: the type of the value is not checked
op_validator_unchecked(types, v) == {Ok(v)}

\* op_validation_generator(*types): the validator asserting isinstance(v, types)
op_validator(types, v) == IF IsInstance(v, types) THEN {Ok(v)} ELSE {AssertionError}

validate_glue(v) ==
    IF v.k = "list" /\ \A i \in 1..Len(v.list) : v.list[i].k = "dict"
    THEN {Ok(v)} ELSE {AssertionError}

\* The geometry constructors belong to the data layer: whether one accepts
\* its arguments is not decided here, so both outcomes are possible; a
\* failure of the constructor is re-raised as AssertionError.
validate_geo(v) ==
    IF ~(v.k = "dict" /\ DOMAIN v.dict = {"type", "coordinates"}) THEN {AssertionError}
    ELSE IF v.dict["type"].k # "str" THEN {OtherError("AttributeError")}
    ELSE LET objkey == Upper(v.dict["type"].str)
         IN IF ~(objkey \in DOMAIN geo_helpers /\ v.dict["coordinates"].k = "list")
            THEN {AssertionError}
            ELSE {Ok(Geometry(geo_helpers[objkey], tuplify_list(v.dict["coordinates"]))),
                  AssertionError}

validate_geo_dwithin(v) ==
    IF ~(v.k = "dict" /\ DOMAIN v.dict = {"geometry", "distance"}) THEN {AssertionError}
    ELSE IF ~ValueTruthy(v.dict["distance"]) THEN {AssertionError}
    ELSE {IF o.t = "ok" THEN Ok([k |-> "tuple", tuple |-> <<o.v, v.dict["distance"]>>]) ELSE o :
            o \in validate_geo(v.dict["geometry"])}

OrderingTypes == {"int", "float", "datetime"}
GeoTokens == {"$geo.contains", "$geo.equals", "$geo.intersects", "$geo.overlaps",
              "$geo.touches", "$geo.within"}

\* the keys of op_validators
ValidatedTokens ==
    {"$and", "$or", "$eq", "$not", "$ne", "$in", "$nin", "$lt", "$gt", "$le", "$ge",
     "$lte", "$gte", "$exists", "$like", "$ilike", "$regex", "$iregex", "$geo.dwithin"}
    \cup GeoTokens

\* op_validators[key](v)
op_validators(key, v) ==
    CASE key \in {"$and", "$or"} -> validate_glue(v)
      [] key \in {"$eq", "$ne", "$like", "$ilike", "$regex", "$iregex"} -> validate_default(v)
      [] key = "$not" -> op_validator({"dict"}, v)
      [] key \in {"$in", "$nin"} -> op_validator({"list"}, v)
      [] key \in {"$lt", "$gt", "$le", "$ge", "$lte", "$gte"} -> op_validator(OrderingTypes, v)
      [] key = "$exists" -> op_validator({"bool"}, v)
      [] key \in GeoTokens -> validate_geo(v)
      [] key = "$geo.dwithin" -> validate_geo_dwithin(v)

(***************************************************************************)
(* queries/parser.py: the operator table                                   *)
(***************************************************************************)
\* the keys of _query_operators
OperatorTokens ==
    {"$and", "$or", "$not", "$eq", "$ne", "$lt", "$gt", "$le", "$ge", "$lte", "$gte",
     "$in", "$exists", "$contains", "$icontains", "$like", "$ilike", "$regex",
     "$iregex", "$geo.dwithin"} \cup GeoTokens

NoCase == "n/a"

\* _query_operators[key](field, value) for the field-level operators
query_operators(key, field, value) ==
    CASE key = "$eq" -> Leaf("eq", field, value, NoCase)
      [] key = "$ne" -> Leaf("ne", field, value, NoCase)
      [] key = "$lt" -> Leaf("lt", field, value, NoCase)
      [] key = "$gt" -> Leaf("gt", field, value, NoCase)
      [] key \in {"$le", "$lte"} -> Leaf("le", field, value, NoCase)
      [] key \in {"$ge", "$gte"} -> Leaf("ge", field, value, NoCase)
      [] key = "$in" -> Leaf("belongs", field, value, NoCase)
      [] key = "$exists" ->
            IF ValueTruthy(value) THEN Leaf("ne", field, NoneV, NoCase)
            ELSE Leaf("eq", field, NoneV, NoCase)
      [] key \in {"$contains", "$regex"} -> Leaf("contains", field, value, "True")
      [] key \in {"$icontains", "$iregex"} -> Leaf("contains", field, value, "False")
      [] key = "$like" -> Leaf("like", field, value, "True")
      [] key = "$ilike" -> Leaf("like", field, value, "False")
      [] key = "$geo.contains" -> Leaf("st_contains", field, value, NoCase)
      [] key = "$geo.equals" -> Leaf("st_equals", field, value, NoCase)
      [] key = "$geo.intersects" -> Leaf("st_intersects", field, value, NoCase)
      [] key = "$geo.overlaps" -> Leaf("st_overlaps", field, value, NoCase)
      [] key = "$geo.touches" -> Leaf("st_touches", field, value, NoCase)
      [] key = "$geo.within" -> Leaf("st_within", field, value, NoCase)
      [] key = "$geo.dwithin" -> Leaf("st_dwithin", field, value, NoCase)

\* mutants of glue_operator: one combinator for both tokens
glue_operator_or(key, a, b) == Or(a, b)
glue_operator_and(key, a, b) == And(a, b)

\* _query_operators[key](a, b) for the glue operators: operator.and_ / operator.or_
glue_operator(key, a, b) == IF key = "$and" THEN And(a, b) ELSE Or(a, b)

\* the fields of the model's table
ModelFields == {"str", "int", "geopoint"}

\* ctx.parent of a call made with parent=None
NoParent == "<None>"

\* model.table[parent]: a field of the table by name.  The table belongs to
\* the data layer; a name that is no field of it (an operator token used as
\* parent, or no parent at all) gives no field to compare, and the lookup
\* fails with an exception that is no AssertionError.
table(parent) == IF parent \in ModelFields THEN {Ok(parent)} ELSE {OtherError("KeyError")}

\* op_set of _build_scoped_conditions_parser: set(op_validators.keys())
op_set == ValidatedTokens

\* all the orders in which a Python set can be iterated
Orders(S) == {order \in [1..Cardinality(S) -> S] : \A i, j \in DOMAIN order : order[i] = order[j] => i = j}

\* Evaluate the calls outs[order[1]], outs[order[2]], ... one after the other:
\* the first one that raises ends the evaluation, otherwise the list of the
\* returned values is the result.
RECURSIVE RunInOrder(_, _)
RunInOrder(order, outs) ==
    IF Len(order) = 0 THEN {Ok(<<>>)}
    ELSE LET first == outs[Head(order)]
             rest == RunInOrder(Tail(order), outs)
         IN Raises(first)
            \cup (IF Oks(first) = {} THEN {}
                  ELSE Raises(rest) \cup {Ok(<<o.v>> \o r.v) : o \in Oks(first), r \in Oks(rest)})

\* mutant of glue_lambda: None is skipped instead of absorbing
glue_lambda_skip(key, a, b) ==
    IF Truthy(a) /\ Truthy(b) THEN glue_operator(key, a, b) ELSE IF Truthy(a) THEN a ELSE b

\* lambda a, b: op(a, b) if a and b else None      (the glue reduction)
glue_lambda(key, a, b) == IF Truthy(a) /\ Truthy(b) THEN glue_operator(key, a, b) ELSE NoneQ

\* mutant of and_lambda: the conditions of a level are OR-combined
and_lambda_or(a, b) == IF Truthy(a) /\ Truthy(b) THEN Or(a, b) ELSE NoneQ

\* lambda a, b: operator.and_(a, b) if a and b else None
and_lambda(a, b) == IF Truthy(a) /\ Truthy(b) THEN And(a, b) ELSE NoneQ

\* functools.reduce(glue_lambda, conditions) without initial value
RECURSIVE glue_fold(_, _, _)
glue_fold(key, acc, conditions) ==
    IF Len(conditions) = 0 THEN acc
    ELSE glue_fold(key, glue_lambda(key, acc, Head(conditions)), Tail(conditions))

glue_reduce(key, conditions) ==
    IF Len(conditions) = 0 THEN OtherError("TypeError")
    ELSE Ok(glue_fold(key, Head(conditions), Tail(conditions)))

RECURSIVE and_fold(_, _)
and_fold(acc, conditions) ==
    IF Len(conditions) = 0 THEN acc
    ELSE and_fold(and_lambda(acc, Head(conditions)), Tail(conditions))

\* functools.reduce(and_lambda, conditions) on a non-empty list
and_reduce(conditions) == and_fold(Head(conditions), Tail(conditions))

\* mutant of invert: nothing to negate gives nothing
invert_lenient(inner) == IF inner = NoneQ THEN Ok(NoneQ) ELSE Ok(Not(inner))

\* mutant of invert: the negation is lost
invert_identity(inner) == IF inner = NoneQ THEN OtherError("TypeError") ELSE Ok(inner)

\* operator.inv(value): ~None is a TypeError
invert(inner) == IF inner = NoneQ THEN OtherError("TypeError") ELSE Ok(Not(inner))

\* query & other: Query.__and__ builds the node whatever the other operand is
query_and(query, other) == And(query, other)

\* mutant of shorthand: the wrapper is itself wrapped in an operator that
\* recurses
shorthand_nested(value) ==
    IF value.k # "dict" THEN DictV(Dict1("$not", DictV(Dict1("$eq", value)))) ELSE value

\* mutant of shorthand: the shorthand stands for another operator
shorthand_ne(value) == IF value.k # "dict" THEN DictV(Dict1("$ne", value)) ELSE value

\* a field's value that is no mapping is the shorthand of {'$eq': value}
shorthand(value) == IF value.k # "dict" THEN DictV(Dict1("$eq", value)) ELSE value

\* query_key_set & op_set
step_keys(d) == DOMAIN d \cap op_set

\* mutant of inner_keys: every key that is no operator is taken as a field
inner_keys_unfiltered(d, accepted) == DOMAIN d \ op_set

\* accepted_set & query_key_set
inner_keys(d, accepted) == accepted \cap DOMAIN d

\* the tail of _conditions_parser: from the two lists of conditions to the query
combine(step_conditions, inner_conditions) ==
    LET query0 == NoneQ
        step_query == and_reduce(step_conditions)
        query1 == IF Len(step_conditions) > 0
                  THEN (IF Truthy(query0) THEN query_and(query0, step_query) ELSE step_query)
                  ELSE query0
        inner_query == and_reduce(inner_conditions)
    IN IF Len(inner_conditions) > 0
       THEN (IF Truthy(query1) THEN query_and(query1, inner_query) ELSE inner_query)
       ELSE query1

RECURSIVE conditions_parser(_, _, _)
RECURSIVE glue_op_parser(_, _, _)
RECURSIVE dict_op_parser(_, _, _)

generic_op_parser(key, value, parent) ==
    UNION {
        IF validated.t = "raise"
        THEN {IF validated.exc = "AssertionError" THEN QueryError(key, value) ELSE validated}
        ELSE IF key \notin OperatorTokens THEN {OtherError("KeyError")}
        ELSE {IF field.t = "raise" THEN field ELSE Ok(query_operators(key, field.v, validated.v)) :
                field \in table(parent)}
        : validated \in op_validators(key, value)}

\* the keys of op_parsers
ParserTokens == ValidatedTokens \cup {"$or", "$and", "$not"}

\* op_parsers[key](key, value, ctx)
op_parsers(key, value, accepted, parent) ==
    CASE key \in {"$or", "$and"} -> glue_op_parser(key, value, accepted)
      [] key = "$not" -> dict_op_parser(key, value, accepted)
      [] OTHER -> generic_op_parser(key, value, parent)

glue_op_parser(key, value, accepted) ==
    IF value.k # "list" THEN {QueryError(key, value)}
    ELSE LET outs == [i \in 1..Len(value.list) |-> conditions_parser(value.list[i], accepted, key)]
             runs == RunInOrder([i \in 1..Len(value.list) |-> i], outs)
         IN Raises(runs) \cup {glue_reduce(key, r.v) : r \in Oks(runs)}

dict_op_parser(key, value, accepted) ==
    IF value.k # "dict" THEN {QueryError(key, value)}
    ELSE LET inner == conditions_parser(value, accepted, key)
         IN Raises(inner) \cup {invert(i.v) : i \in Oks(inner)}

conditions_parser(query_dict_, accepted, parent) ==
    IF query_dict_.k # "dict" THEN {OtherError("AttributeError")}   \* no .keys()
    ELSE LET d == query_dict_.dict
             step_outs == [key \in step_keys(d) |-> op_parsers(key, d[key], accepted, parent)]
             inner_outs == [key \in inner_keys(d, accepted) |->
                              conditions_parser(shorthand(d[key]), accepted, key)]
             step_runs == UNION {RunInOrder(order, step_outs) : order \in Orders(step_keys(d))}
             inner_runs == UNION {RunInOrder(order, inner_outs) : order \in Orders(inner_keys(d, accepted))}
         IN Raises(step_runs)
            \cup (IF Oks(step_runs) = {} THEN {}
                  ELSE Raises(inner_runs)
                       \cup {Ok(combine(s.v, i.v)) : s \in Oks(step_runs), i \in Oks(inner_runs)})

\* The depth of the calls of _conditions_parser that compiling a value makes:
\* the call itself, and below it the calls the glue operators make on the
\* elements of their list, $not on its mapping, and the field loop on the
\* value of each allowed key (wrapped by the shorthand when it is no
\* mapping).  Calls that an earlier exception would have kept from being
\* made are counted too.
Max(S) == CHOOSE x \in S : \A y \in S : y <= x
RECURSIVE conditions_parser_depth(_, _)
op_parser_depth(key, value, accepted) ==
    CASE key \in {"$and", "$or"} ->
            IF value.k # "list" THEN 0
            ELSE Max({0} \cup {conditions_parser_depth(value.list[i], accepted) : i \in 1..Len(value.list)})
      [] key = "$not" -> IF value.k # "dict" THEN 0 ELSE conditions_parser_depth(value, accepted)
      [] OTHER -> 0
conditions_parser_depth(query_dict_, accepted) ==
    IF query_dict_.k # "dict" THEN 1
    ELSE 1 + Max({0}
            \cup {op_parser_depth(key, query_dict_.dict[key], accepted) : key \in step_keys(query_dict_.dict)}
            \cup {conditions_parser_depth(shorthand(query_dict_.dict[key]), accepted) :
                    key \in inner_keys(query_dict_.dict, accepted)})

(***************************************************************************)
(* The data layer's dataset handle: Set.where(query)                       *)
(***************************************************************************)
DBSet(query) == [query |-> query]

\* mutant of where: the compiled query replaces the conditions of the set
where_replace(dbset_, query) == IF query = NoneQ THEN dbset_ ELSE [query |-> query]

\* dbset.where(query): None leaves the set as it is, a query is AND-combined
\* onto the conditions the set already has
where(dbset_, query) ==
    IF query = NoneQ THEN dbset_
    ELSE DBSet(IF Truthy(dbset_.query) THEN And(dbset_.query, query) ELSE query)

\* scoped(model, dbset, query_dict, accepted_set), the body of
\* parse_conditions: dbset.where(_conditions_parser(...)); conditions is what
\* the call of _conditions_parser returned or raised
scoped(dbset_, conditions) ==
    IF conditions.t = "ok" THEN Ok(where(dbset_, conditions.v)) ELSE conditions

(***************************************************************************)
(* JSON texts, as syntax trees, and the JSON parser                        *)
(***************************************************************************)
JNumber(n) == [j |-> "number", number |-> n, fraction |-> FALSE]
JFraction(tenths) == [j |-> "number", number |-> tenths, fraction |-> TRUE]
JString(s) == [j |-> "string", string |-> s]
JBool(b) == [j |-> "literal", literal |-> IF b THEN "true" ELSE "false"]
JNull == [j |-> "literal", literal |-> "null"]
JArray(s) == [j |-> "array", array |-> s]
JObject(d) == [j |-> "object", object |-> d]

\* Parsers.get_for('json'): JSON text to Python value
RECURSIVE json_load(_)
json_load(text) ==
    CASE text.j = "number" -> IF text.fraction THEN FloatV(text.number) ELSE IntV(text.number)
      [] text.j = "string" -> StrV(text.string)
      [] text.j = "literal" ->
            IF text.literal = "null" THEN NoneV ELSE BoolV(text.literal = "true")
      [] text.j = "array" -> ListV([i \in 1..Len(text.array) |-> json_load(text.array[i])])
      [] text.j = "object" -> DictV([key \in DOMAIN text.object |-> json_load(text.object[key])])

\* datetime.isoformat() of the model's datetimes
IsoFormat(t) == "2020-01-01T00:00:0" \o ToString(t)

\* Serializers.get_for('json'): the JSON text a client sends for a value; a
\* datetime goes over the wire as its ISO string
RECURSIVE json_dump(_)
json_dump(value) ==
    CASE value.k = "int" -> JNumber(value.int)
      [] value.k = "float" -> JFraction(value.float)
      [] value.k = "str" -> JString(value.str)
      [] value.k = "bool" -> JBool(value.bool)
      [] value.k = "NoneType" -> JNull
      [] value.k = "datetime" -> JString(IsoFormat(value.datetime))
      [] value.k = "list" -> JArray([i \in 1..Len(value.list) |-> json_dump(value.list[i])])
      [] value.k = "dict" -> JObject([key \in DOMAIN value.dict |-> json_dump(value.dict[key])])

\* a query parameter: None when absent, else a string; a string that is a
\* JSON text carries its syntax tree
JsonParam(text) == [k |-> "str", str |-> "json", text |-> text]
MalformedParam == StrV("{not json")
EmptyParam == StrV("")
AbsentParam == NoneV

\* mutant of parse_where_param: the decoded value is not asserted a dict
parse_where_param_any(param) ==
    IF ~ValueTruthy(param) THEN Ok(DictV(EmptyDict))
    ELSE IF param = MalformedParam THEN OtherError("ValueError")
    ELSE Ok(json_load(param.text))

\* JSONQueryPipe._parse_where_param
parse_where_param(param) ==
    IF ~ValueTruthy(param) THEN Ok(DictV(EmptyDict))
    ELSE IF param = MalformedParam THEN OtherError("ValueError")
    ELSE LET decoded == json_load(param.text)
         IN IF decoded.k = "dict" THEN Ok(decoded) ELSE OtherError("ValueError")

\* ext.config.query_param
query_param == "where"

\* mutant of gen_msg: the message of the parse-level error
gen_msg_generic(exc) == StrV("invalid value")

\* QueryError.gen_msg: "Invalid {} condition: {!r}".format(op, value)
gen_msg(exc) == [k |-> "str", str |-> "Invalid {} condition: {!r}", args |-> <<exc.op, exc.value>>]

\* RESTModule.build_error_400(errors)
build_error_400(errors) ==
    IF DOMAIN errors # {} THEN Dict1("errors", DictV(errors))
    ELSE Dict1("errors", DictV(Dict1("request", StrV("bad request"))))

(***************************************************************************)
(* The inputs of the model: filter documents, query parameters, datasets   *)
(***************************************************************************)
Ints == 0..MaxInt
Scalars ==
    {IntV(i) : i \in Ints} \cup {DatetimeV(i) : i \in Ints}
    \cup {FloatV(32), StrV("bar"), StrV(IsoFormat(0)), BoolV(TRUE), BoolV(FALSE), NoneV}
Lists == {ListV(<<>>), ListV(<<IntV(0), IntV(MaxInt)>>)}
NonDicts == Scalars \cup Lists
OpValues == NonDicts \cup {DictV(EmptyDict)}

\* keys used for fields: the model's fields and a name that is no field
UnknownField == "bogus"
UnknownOperator == "$foo"
Keys == ModelFields \cup {UnknownField}

\* operator tokens put under a field
FieldOps ==
    {"$eq", "$ne", "$lt", "$gt", "$le", "$ge", "$lte", "$gte", "$in", "$nin", "$exists",
     "$like", "$ilike", "$regex", "$iregex", "$contains", "$icontains"}

\* mappings of one, two and three keys under a field
OpMaps1 == {DictV(Dict1(op, v)) : op \in FieldOps, v \in OpValues}
PairKeys == {"$gte", "$lt", "$in", "$exists", UnknownOperator, "int"}
PairValues == {IntV(0), BoolV(TRUE), ListV(<<>>)}
OpMaps2 ==
    {DictV(Dict2(p[1], p[3], p[2], p[4])) :
        p \in {q \in PairKeys \X PairKeys \X PairValues \X PairValues : q[1] # q[2]}}
OpMaps3 ==
    {DictV(Merge(Dict2("$gte", IntV(0), "$lt", IntV(MaxInt)), Dict1(op, v))) :
        op \in {"$ne", "$gt", UnknownOperator}, v \in {IntV(0), StrV("bar")}}
FieldValues == OpValues \cup OpMaps1 \cup OpMaps2 \cup OpMaps3

\* documents of one key: every value under the field int, fewer under the
\* field str and under the name that is no field
FieldDocs ==
    {DictV(Dict1("int", v)) : v \in FieldValues}
    \cup {DictV(Dict1(f, v)) : f \in {"str", UnknownField}, v \in OpValues \cup OpMaps3}

\* sub-documents (and values that are no documents) put in $and, $or, $not
StrBar == DictV(Dict1("str", StrV("bar")))
IntGt0 == DictV(Dict1("int", DictV(Dict1("$gt", IntV(0)))))
IntRange == DictV(Dict1("int", DictV(Dict2("$gte", IntV(0), "$lt", IntV(MaxInt)))))
NotStrBar == DictV(Dict1("$not", StrBar))
StrOrInt == DictV(Dict1("$or", ListV(<<StrBar, IntGt0>>)))
Atoms ==
    {DictV(EmptyDict), StrBar, IntGt0,
     DictV(Dict1(UnknownField, IntV(0))),
     DictV(Dict1("int", DictV(Dict1("$in", IntV(0))))),
     DictV(Dict1("$eq", IntV(0))),
     DictV(Dict2("str", StrV("bar"), "int", IntV(0))),
     IntV(0)}
GlueLists ==
    UNION {[1..n -> Atoms] : n \in 0..MaxGlueLen}
    \cup {<<IntRange>>, <<NotStrBar>>, <<StrOrInt, StrBar>>, <<StrBar, IntRange>>,
          <<StrV("bar")>>, <<NoneV, StrBar>>, <<ListV(<<>>)>>,
          <<DictV(Dict1("int", DictV(Dict1("$nin", ListV(<<IntV(0)>>))))),
            DictV(Dict1("int", DictV(Dict1("$in", IntV(0)))))>>}
GlueDocs ==
    {DictV(Dict1(g, ListV(l))) : g \in {"$and", "$or"}, l \in GlueLists}
    \cup {DictV(Dict1(g, v)) : g \in {"$and", "$or"}, v \in Scalars \cup {DictV(EmptyDict), StrBar}}
NotDocs ==
    {DictV(Dict1("$not", v)) :
        v \in Atoms \cup Scalars \cup Lists \cup {IntRange, NotStrBar, StrOrInt}
              \cup {DictV(Dict1("int", w)) : w \in OpValues \cup OpMaps2 \cup OpMaps3}}

\* documents of several top-level keys: each key is absent or has one of a
\* few values
Absent == [k |-> "absent"]
Choices(key) ==
    CASE key = "str" -> {StrV("bar")}
      [] key = "int" -> {IntV(0), DictV(Dict1("$gt", IntV(0))), DictV(EmptyDict),
                         DictV(Dict1("$in", IntV(0)))}
      [] key = "$not" -> {DictV(Dict1("int", DictV(Dict1("$in", ListV(<<IntV(0), IntV(MaxInt)>>))))),
                          DictV(EmptyDict)}
      [] key = "$or" -> {ListV(<<StrBar, IntGt0>>), ListV(<<DictV(EmptyDict), IntGt0>>)}
      [] key = "$and" -> {ListV(<<IntRange>>)}
      [] key = UnknownField -> {IntV(0)}
MixedKeys == {"str", "int", "$not", "$or", "$and", UnknownField}
Option(key) == Choices(key) \cup {Absent}
MixedDoc(c) == DictV([key \in {x \in MixedKeys : c[x] # Absent} |-> c[key]])
MixedDocs ==
    {MixedDoc([key \in MixedKeys |->
        CASE key = "str" -> s [] key = "int" -> i [] key = "$not" -> n
          [] key = "$or" -> o [] key = "$and" -> a [] OTHER -> u]) :
        s \in Option("str"), i \in Option("int"), n \in Option("$not"),
        o \in Option("$or"), a \in Option("$and"), u \in Option(UnknownField)}

\* geometry literals, well-formed and not, and the documents holding them
\* under a geometry operator of the field geopoint
GeoField == "geopoint"
Literal(type, coordinates) == DictV(Dict2("type", type, "coordinates", coordinates))
PointCoordinates == ListV(<<IntV(MaxInt), IntV(2)>>)
RingCoordinates ==
    ListV(<<ListV(<<IntV(1), IntV(2)>>), ListV(<<IntV(2), IntV(MaxInt)>>),
            ListV(<<IntV(1), IntV(2)>>)>>)
NestedCoordinates == ListV(<<ListV(<<ListV(<<IntV(0), IntV(1)>>), ListV(<<>>)>>), IntV(MaxInt)>>)
KnownTypes == {"point", "Point", "POINT", "line", "linestring", "LineString", "polygon", "POLYGON"}
WellFormedLiterals ==
    {Literal(StrV(t), c) : t \in KnownTypes, c \in {PointCoordinates, RingCoordinates}}
    \cup {Literal(StrV("polygon"), NestedCoordinates), Literal(StrV("point"), ListV(<<>>))}
IllFormedLiterals ==
    {IntV(0), StrV("bar"), NoneV, ListV(<<>>), DictV(EmptyDict),
     DictV(Dict1("type", StrV("point"))),
     DictV(Dict1("coordinates", PointCoordinates)),
     DictV(Merge(Literal(StrV("point"), PointCoordinates).dict, Dict1("srid", IntV(0)))),
     Literal(StrV("circle"), PointCoordinates),
     Literal(StrV(""), PointCoordinates),
     Literal(IntV(0), PointCoordinates),
     Literal(NoneV, PointCoordinates),
     Literal(ListV(<<>>), PointCoordinates),
     Literal(StrV("point"), IntV(0)),
     Literal(StrV("point"), StrV("bar")),
     Literal(StrV("point"), NoneV),
     Literal(StrV("point"), DictV(EmptyDict))}
Literals == WellFormedLiterals \cup IllFormedLiterals
Within(geometry, distance) == DictV(Dict2("geometry", geometry, "distance", distance))
Distances == {IntV(0), IntV(MaxInt), FloatV(0), FloatV(32), NoneV, BoolV(FALSE), StrV("")}
DWithinValues ==
    {Within(g, d) :
        g \in {Literal(StrV("point"), PointCoordinates), Literal(StrV("LineString"), RingCoordinates),
               Literal(StrV("circle"), PointCoordinates), Literal(IntV(0), PointCoordinates),
               Literal(StrV("point"), IntV(0)), IntV(0), DictV(EmptyDict)},
        d \in Distances}
    \cup {IntV(0), ListV(<<>>), DictV(EmptyDict),
          DictV(Dict1("geometry", Literal(StrV("point"), PointCoordinates))),
          DictV(Dict1("distance", IntV(MaxInt))),
          Literal(StrV("point"), PointCoordinates)}
GeoDocs ==
    {DictV(Dict1(GeoField, DictV(Dict1(op, v)))) : op \in GeoTokens, v \in Literals}
    \cup {DictV(Dict1(GeoField, DictV(Dict1("$geo.dwithin", v)))) : v \in DWithinValues}
    \cup {DictV(Dict1("$not", DictV(Dict1(GeoField, DictV(Dict1("$geo.equals", v)))))) :
            v \in {Literal(StrV("point"), PointCoordinates), Literal(StrV("circle"), PointCoordinates),
                   Literal(IntV(0), PointCoordinates)}}

\* deeply nested documents: a field condition under n levels of $not
RECURSIVE Nest(_)
Nest(n) == IF n = 0 THEN IntGt0 ELSE DictV(Dict1("$not", Nest(n - 1)))
DeepDocs ==
    {Nest(n) : n \in 1..MaxNesting}
    \cup {DictV(Dict1("$and", ListV(<<Nest(MaxNesting - 1), StrBar>>))),
          DictV(Dict1("int", DictV(Dict1("int", DictV(Dict1("int", IntV(0)))))))}

Documents == FieldDocs \cup GlueDocs \cup NotDocs \cup MixedDocs \cup GeoDocs \cup DeepDocs

\* the documents a client can send: JSON has no datetime, so what arrives is
\* what the JSON parser makes of the text
WhereParams ==
    {AbsentParam, EmptyParam, MalformedParam}
    \cup {JsonParam(json_dump(d)) : d \in Documents \cup NonDicts}

\* the inbound dataset handle: Model.all(), the set of the rows with an id
AllRows == Leaf("ne", "id", NoneV, NoCase)
DBSets == {DBSet(AllRows)}

\* lists assigned to query_allowed_fields
FieldLists == {<<>>, <<"int">>, <<"str", "int">>, <<"geopoint">>}

NoRequest == [k |-> "no request"]
NotDecoded == [k |-> "not decoded"]
NoOutcome == [t |-> "none"]
NoPipeline == "none"
NotRead == {"<not read>"}

\* RESTModule._init_pipelines: the stages of each pipeline; the four that
\* filter hold the module's one JSONQueryPipe
pipelines ==
    [index |-> <<"SetFetcher", "json_query_pipe">>,
     create |-> <<>>,
     read |-> <<"SetFetcher", "RecordFetcher">>,
     update |-> <<"SetFetcher">>,
     delete |-> <<"SetFetcher">>,
     group |-> <<"group_field_pipe", "SetFetcher", "json_query_pipe">>,
     stats |-> <<"stats_field_pipe", "SetFetcher", "json_query_pipe">>,
     sample |-> <<"SetFetcher", "json_query_pipe">>]
FilteringPipelines ==
    {p \in DOMAIN pipelines : \E i \in DOMAIN pipelines[p] : pipelines[p][i] = "json_query_pipe"}

(***************************************************************************)
(* The REST module: handler selection and the update handlers              *)
(***************************************************************************)
\* REST.default_config, the two options RESTModule.__init__ falls back to
default_config == [use_save |-> TRUE, use_destroy |-> TRUE]

\* RESTModule._all_methods
all_methods == {"index", "create", "read", "update", "delete", "group", "stats", "sample"}

\* what use_save / use_destroy can be given as: Optional[bool]
OptionValues == {NoneV, BoolV(TRUE), BoolV(FALSE)}

\* option if option is not None else self.ext.config[...]
OrConfig(option, config) == IF option.k # "NoneType" THEN option.bool ELSE config

\* RESTModule._expose_routes: the name of the method routed for each key
expose_functions_map(use_save_, use_destroy_) ==
    [key \in all_methods |->
        IF key \in {"create", "update"}
        THEN IF ~use_save_ THEN "_" \o key \o "_without_save" ELSE "_" \o key
        ELSE IF key \in {"delete"}
        THEN IF ~use_destroy_ THEN "_" \o key \o "_without_destroy" ELSE "_" \o key
        ELSE "_" \o key]

\* the n-th function registered for a hook; its invocation is logged as itself
Callback(hook, n) == [hook |-> hook, n |-> n]

\* the write of the record: r.save() that succeeds, or validate_and_update
\* that updates a row
Write == [hook |-> "write", n |-> 0]

\* ids a request can name, and the ids that have a row
Rids == {1, 2}
ExistingRows == {1}

NoUpdate == [handler |-> "none", rid |-> 0, valid |-> FALSE]
NoResponse == [status |-> 200, body |-> "none"]

\* RESTModule.__init__ called with the two options: the state it leaves
RESTModuleInit(use_save_arg, use_destroy_arg) ==
    /\ module_kwargs = [use_save |-> use_save_arg, use_destroy |-> use_destroy_arg]
    /\ use_save = OrConfig(use_save_arg, default_config.use_save)
    /\ use_destroy = OrConfig(use_destroy_arg, default_config.use_destroy)
    /\ functions_map = expose_functions_map(use_save, use_destroy)
    /\ before_update_callbacks = <<>>
    /\ after_create_callbacks = <<>>
    /\ after_update_callbacks = <<>>
    /\ update_request = NoUpdate
    /\ update_response = NoResponse
    /\ invoked = <<>>

\* RESTModule.before_update(f)
before_update ==
    /\ Len(before_update_callbacks) < MaxCallbacks
    /\ before_update_callbacks' =
          Append(before_update_callbacks,
                 Callback("before_update", Len(before_update_callbacks) + 1))
    /\ UNCHANGED <<module_kwargs, use_save, use_destroy, functions_map,
                   after_create_callbacks, after_update_callbacks,
                   update_request, update_response, invoked>>
    /\ UNCHANGED query_vars

\* RESTModule.after_create(f)
after_create ==
    /\ Len(after_create_callbacks) < MaxCallbacks
    /\ after_create_callbacks' =
          Append(after_create_callbacks,
                 Callback("after_create", Len(after_create_callbacks) + 1))
    /\ UNCHANGED <<module_kwargs, use_save, use_destroy, functions_map,
                   before_update_callbacks, after_update_callbacks,
                   update_request, update_response, invoked>>
    /\ UNCHANGED query_vars

\* RESTModule.after_update(f)
after_update ==
    /\ Len(after_update_callbacks) < MaxCallbacks
    /\ after_update_callbacks' =
          Append(after_update_callbacks,
                 Callback("after_update", Len(after_update_callbacks) + 1))
    /\ UNCHANGED <<module_kwargs, use_save, use_destroy, functions_map,
                   before_update_callbacks, after_create_callbacks,
                   update_request, update_response, invoked>>
    /\ UNCHANGED query_vars

\* RESTModule._update: the status, the body and what it invoked, given
\* whether the row exists and whether r.save() validates
update(exists, valid) ==
    IF ~exists
    THEN [status |-> 404, body |-> "error_404", invoked |-> <<>>]
    ELSE IF ~valid
    THEN [status |-> 422, body |-> "error_422", invoked |-> before_update_callbacks]
    ELSE [status |-> 200, body |-> "row",
          invoked |-> before_update_callbacks \o <<Write>> \o after_create_callbacks]

\* RESTModule._update_without_save: the same, given whether a row matches
\* and whether validate_and_update validates
update_without_save(exists, valid) ==
    IF ~valid
    THEN [status |-> 422, body |-> "error_422", invoked |-> before_update_callbacks]
    ELSE IF ~exists
    THEN [status |-> 404, body |-> "error_404", invoked |-> before_update_callbacks]
    ELSE [status |-> 200, body |-> "row",
          invoked |-> before_update_callbacks \o <<Write>> \o after_update_callbacks]

\* a PUT/PATCH request on id_path: the method routed for 'update' serves it
Update(rid, valid) ==
    /\ LET f == functions_map["update"]
           served == IF f = "_update" THEN update(rid \in ExistingRows, valid)
                     ELSE update_without_save(rid \in ExistingRows, valid)
       IN /\ update_request' = [handler |-> f, rid |-> rid, valid |-> valid]
          /\ update_response' = [status |-> served.status, body |-> served.body]
          /\ invoked' = served.invoked
    /\ UNCHANGED <<module_kwargs, use_save, use_destroy, functions_map,
                   before_update_callbacks, after_create_callbacks, after_update_callbacks>>
    /\ UNCHANGED query_vars

(***************************************************************************)
(* The state machine                                                       *)
(***************************************************************************)
\* RESTModule.__init__: no queryable field, and the pipe's accepted set is
\* computed from that.  The arguments of the call to come are chosen here:
\* either a document for a direct call of parse_conditions, or the query
\* parameter of a request that goes through the pipe.
Init ==
    /\ queryable_fields = <<>>
    /\ accepted_set = {}
    /\ dbset \in DBSets
    /\ parsed = NoOutcome
    /\ response_status = 200
    /\ next_pipe_calls = <<>>
    /\ pc = "ready"
    /\ outcome = NoOutcome
    /\ pipeline = NoPipeline
    /\ check_accepted = NotRead
    /\ compile_accepted = NotRead
    /\ \/ where_param = NoRequest /\ query_dict \in Documents
       \/ where_param \in WhereParams /\ query_dict = NotDecoded
    /\ RESTModuleInit(NoneV, NoneV)

\* the set a list is turned into by set(...)
ToSet(list) == {list[i] : i \in DOMAIN list}

\* mutant of set_accepted: the set is not recomputed from the new list
set_accepted_stale(fields) == {}

\* JSONQueryPipe.set_accepted
set_accepted(fields) == ToSet(fields)

\* mutant of SuspensionPoints: other code can run between any two statements
SuspensionPoints_preemptive == {"ready", "checked"}

\* The positions of a request, up to the return of the filter stage, at
\* which the event loop can run other code: pipe_request has no await before
\* its last statement, so once started it runs to its return.
SuspensionPoints == {"ready"}

\* RESTModule.query_allowed_fields = val
SetQueryAllowedFields(val) ==
    /\ pc \in SuspensionPoints
    /\ queryable_fields' = val
    /\ accepted_set' = set_accepted(val)
    /\ UNCHANGED <<where_param, query_dict, dbset, parsed, response_status,
                   next_pipe_calls, pc, outcome, pipeline, check_accepted,
                   compile_accepted>>
    /\ UNCHANGED rest_vars

\* mutant of ParseConditions: the keys are popped from the document as they
\* are compiled
ParseConditions_consuming ==
    /\ pc = "ready"
    /\ where_param = NoRequest
    /\ \E conditions \in conditions_parser(query_dict, accepted_set, NoParent) :
         /\ parsed' = conditions
         /\ outcome' = scoped(dbset, conditions)
    /\ query_dict' =
          IF query_dict.k # "dict" THEN query_dict
          ELSE DictV([key \in DOMAIN query_dict.dict \ (op_set \cup accepted_set) |-> query_dict.dict[key]])
    /\ pc' = "done"
    /\ UNCHANGED <<queryable_fields, accepted_set, where_param, dbset,
                   response_status, next_pipe_calls, pipeline, check_accepted,
                   compile_accepted>>
    /\ UNCHANGED rest_vars

\* a direct call parse_conditions(model, dbset, query_dict, accepted_set)
ParseConditions ==
    /\ pc = "ready"
    /\ where_param = NoRequest
    /\ \E conditions \in conditions_parser(query_dict, accepted_set, NoParent) :
         /\ parsed' = conditions
         /\ outcome' = scoped(dbset, conditions)
    /\ pc' = "done"
    /\ UNCHANGED <<queryable_fields, accepted_set, where_param, query_dict, dbset,
                   response_status, next_pipe_calls, pipeline, check_accepted,
                   compile_accepted>>
    /\ UNCHANGED rest_vars

Error400(msg) == [t |-> "error_400", body |-> build_error_400(Dict1(query_param, msg))]
\* mutant of NextPipe: downstream gets a dataset without conditions
NextPipe_unscoped(dbset_) == [t |-> "next_pipe", dbset |-> [query |-> NoneQ]]
NextPipe(dbset_) == [t |-> "next_pipe", dbset |-> dbset_]

\* JSONQueryPipe.pipe_request, its condition: when it is false the request
\* goes on to next_pipe with what it came with
PipeCheck ==
    /\ pc = "ready"
    /\ where_param # NoRequest
    /\ pipeline' \in FilteringPipelines
    /\ check_accepted' = accepted_set
    /\ UNCHANGED <<queryable_fields, accepted_set, where_param, dbset, query_dict, parsed,
                   response_status, compile_accepted>>
    /\ UNCHANGED rest_vars
    /\ IF ValueTruthy(where_param) /\ accepted_set # {}
       THEN /\ pc' = "checked"
            /\ UNCHANGED <<next_pipe_calls, outcome>>
       ELSE /\ pc' = "done"
            /\ next_pipe_calls' = Append(next_pipe_calls, dbset)
            /\ outcome' = NextPipe(dbset)

\* JSONQueryPipe.pipe_request, the body of its condition, up to its return
\* or to the exception that leaves it
PipeCompile ==
    /\ pc = "checked"
    /\ pc' = "done"
    /\ UNCHANGED <<queryable_fields, accepted_set, where_param, dbset, pipeline, check_accepted>>
    /\ UNCHANGED rest_vars
    /\ LET input_condition == parse_where_param(where_param)
       IN IF input_condition.t = "raise"
          THEN /\ response_status' = 400
               /\ outcome' = Error400(StrV("invalid value"))
               /\ UNCHANGED <<query_dict, parsed, next_pipe_calls, compile_accepted>>
          ELSE /\ query_dict' = input_condition.v
               /\ compile_accepted' = accepted_set
               /\ \E conditions \in conditions_parser(input_condition.v, accepted_set, NoParent) :
                    /\ parsed' = conditions
                    /\ IF conditions.t = "ok"
                       THEN /\ next_pipe_calls' = Append(next_pipe_calls, scoped(dbset, conditions).v)
                            /\ outcome' = NextPipe(scoped(dbset, conditions).v)
                            /\ UNCHANGED response_status
                       ELSE IF conditions.exc = "QueryError"
                       THEN /\ response_status' = 400
                            /\ outcome' = Error400(gen_msg(conditions))
                            /\ UNCHANGED next_pipe_calls
                       ELSE /\ outcome' = conditions
                            /\ UNCHANGED <<response_status, next_pipe_calls>>

Next ==
    \/ \E val \in FieldLists : SetQueryAllowedFields(val)
    \/ ParseConditions
    \/ PipeCheck
    \/ PipeCompile

Spec == Init /\ [][Next]_vars

\* the filter stage before any request, as the REST module's routes see it
QueryIdle ==
    /\ queryable_fields = <<>>
    /\ accepted_set = {}
    /\ where_param = NoRequest
    /\ query_dict = NotDecoded
    /\ dbset = DBSet(AllRows)
    /\ parsed = NoOutcome
    /\ response_status = 200
    /\ next_pipe_calls = <<>>
    /\ pc = "ready"
    /\ outcome = NoOutcome
    /\ pipeline = NoPipeline
    /\ check_accepted = NotRead
    /\ compile_accepted = NotRead

\* a module constructed with any use_save / use_destroy options
RestInit ==
    /\ QueryIdle
    /\ \E use_save_arg \in OptionValues, use_destroy_arg \in OptionValues :
          RESTModuleInit(use_save_arg, use_destroy_arg)

RestNext ==
    \/ before_update
    \/ after_create
    \/ after_update
    \/ \E rid \in Rids, valid \in BOOLEAN : Update(rid, valid)

RestSpec == RestInit /\ [][RestNext]_vars

(***************************************************************************)
(* Properties                                                              *)
(***************************************************************************)
\* the call has returned and it did compile query_dict
Compiled == pc = "done" /\ parsed # NoOutcome

\* what compiling a document on its own gives, over all iteration orders
Compile(doc) == conditions_parser(doc, accepted_set, NoParent)

\* the document compiles to a predicate, whatever the iteration order
CompilesToPredicate(doc) ==
    doc.k = "dict" /\ \A o \in Compile(doc) : o.t = "ok" /\ o.v # NoneQ

IsGlueOfTwo(doc, key) ==
    /\ DOMAIN doc.dict = {key}
    /\ doc.dict[key].k = "list"
    /\ Len(doc.dict[key].list) = 2

\* the only key of a document of one key
OnlyKey(doc) == CHOOSE key \in DOMAIN doc.dict : TRUE
IsFieldDoc(doc) == Cardinality(DOMAIN doc.dict) = 1 /\ OnlyKey(doc) \in accepted_set

\* C1: for an allowed field f and a value v that is no mapping, {f: v}
\* compiles to the equality of f with v, which is also the only outcome of
\* compiling {f: {"$eq": v}}.
C1_FieldShorthand ==
    (Compiled /\ IsFieldDoc(query_dict) /\ query_dict.dict[OnlyKey(query_dict)].k # "dict") =>
        LET f == OnlyKey(query_dict)
            v == query_dict.dict[f]
        IN /\ parsed = Ok(Leaf("eq", f, v, NoCase))
           /\ Compile(DictV(Dict1(f, DictV(Dict1("$eq", v))))) = {parsed}

C1_Witness ==
    /\ Compiled
    /\ query_dict = DictV(Dict1("str", ListV(<<IntV(0), IntV(MaxInt)>>)))
    /\ accepted_set = {"str", "int"}
    /\ parsed.t = "ok"

\* C2: {"$and": [a, b]}, with a and b each compiling to a predicate, compiles
\* to the AND of the predicate of a and the predicate of b.
C2_AndOfTwo ==
    (Compiled /\ IsGlueOfTwo(query_dict, "$and")
        /\ \A i \in 1..2 : CompilesToPredicate(query_dict.dict["$and"].list[i])) =>
        LET a == query_dict.dict["$and"].list[1]
            b == query_dict.dict["$and"].list[2]
        IN parsed \in {Ok(And(pa.v, pb.v)) : pa \in Compile(a), pb \in Compile(b)}

C2_Witness ==
    /\ Compiled
    /\ query_dict = DictV(Dict1("$and", ListV(<<StrBar, IntRange>>)))
    /\ accepted_set = {"str", "int"}
    /\ parsed.t = "ok"

\* C3: {"$or": [a, b]}, with a and b each compiling to a predicate, compiles
\* to the OR of the predicate of a and the predicate of b, in a direct call
\* and in a request through the pipe, which hands the dataset with that
\* predicate to the next pipe.
C3_OrOfTwo ==
    (Compiled /\ IsGlueOfTwo(query_dict, "$or")
        /\ \A i \in 1..2 : CompilesToPredicate(query_dict.dict["$or"].list[i])) =>
        LET a == query_dict.dict["$or"].list[1]
            b == query_dict.dict["$or"].list[2]
        IN /\ parsed \in {Ok(Or(pa.v, pb.v)) : pa \in Compile(a), pb \in Compile(b)}
           /\ where_param = NoRequest => outcome = Ok(DBSet(And(dbset.query, parsed.v)))
           /\ where_param # NoRequest =>
                /\ outcome = NextPipe(DBSet(And(dbset.query, parsed.v)))
                /\ next_pipe_calls = <<DBSet(And(dbset.query, parsed.v))>>

C3_Witness ==
    /\ Compiled
    /\ where_param = JsonParam(json_dump(DictV(Dict1("$or", ListV(<<StrBar, IntGt0>>)))))
    /\ accepted_set = {"str", "int"}
    /\ outcome.t = "next_pipe"

\* C4: {"$not": {f: v}}, with f allowed and {f: v} compiling to a predicate
\* p, compiles to the NOT node of p.
C4_NotOfField ==
    (Compiled /\ DOMAIN query_dict.dict = {"$not"} /\ query_dict.dict["$not"].k = "dict"
        /\ IsFieldDoc(query_dict.dict["$not"])
        /\ CompilesToPredicate(query_dict.dict["$not"])) =>
        parsed \in {Ok(Not(p.v)) : p \in Compile(query_dict.dict["$not"])}

C4_Witness ==
    /\ Compiled
    /\ query_dict = DictV(Dict1("$not", DictV(Dict1("int", DictV(Dict2("$gte", IntV(0), "$lt", BoolV(TRUE)))))))
    /\ accepted_set = {"int"}
    /\ parsed.t = "ok"

\* the wire vocabulary of operator tokens: every token the validators or
\* the operator table know
OperatorVocabulary == ValidatedTokens \cup OperatorTokens

\* the document without the keys, at every level of it that is compiled,
\* that are neither an operator token nor an allowed field
RECURSIVE Strip(_)
Strip(doc) ==
    DictV([key \in {x \in DOMAIN doc.dict : x \in OperatorVocabulary \cup accepted_set} |->
        LET v == doc.dict[key]
        IN IF key \in {"$and", "$or"} /\ v.k = "list"
           THEN ListV([i \in 1..Len(v.list) |->
                        IF v.list[i].k = "dict" THEN Strip(v.list[i]) ELSE v.list[i]])
           ELSE IF (key = "$not" \/ key \in accepted_set) /\ v.k = "dict" THEN Strip(v)
           ELSE v])

\* C5: a key that is neither an operator token nor an allowed field is
\* dropped at every level: the document compiles to what it compiles to
\* without those keys (the same predicate, None or error).
C5_LenientKeys ==
    (Compiled /\ Strip(query_dict) # query_dict) =>
        /\ parsed \in Compile(Strip(query_dict))
        /\ Compile(query_dict) = Compile(Strip(query_dict))

C5_Witness ==
    /\ Compiled
    /\ query_dict = DictV(Dict1("int", DictV(Dict2("$gte", IntV(0), UnknownOperator, BoolV(TRUE)))))
    /\ accepted_set = {"int"}
    /\ parsed = Ok(Leaf("ge", "int", IntV(0), NoCase))

\* the conjuncts of a predicate, and how many they are
RECURSIVE Conjuncts(_)
Conjuncts(q) == IF q.n = "and" THEN Conjuncts(q.l) \cup Conjuncts(q.r) ELSE {q}
RECURSIVE ConjunctCount(_)
ConjunctCount(q) == IF q.n = "and" THEN ConjunctCount(q.l) + ConjunctCount(q.r) ELSE 1

\* the tokens of the vocabulary that compare a field
FieldLevelOperators == OperatorVocabulary \ {"$and", "$or", "$not"}

\* the value has the shape the operator asks for
WellShaped(op, v) == op \in ValidatedTokens => \A o \in op_validators(op, v) : o.t = "ok"

\* the comparison an operator of the vocabulary stands for
Comparison(op, f, v) ==
    IF op = "$nin" THEN Not(Leaf("belongs", f, v, NoCase)) ELSE query_operators(op, f, v)

\* C6: under an allowed field f, a mapping of k >= 1 field-level operators
\* with well-shaped values compiles to the AND of the k comparisons of f,
\* each operator applied exactly once.
C6_EveryOperatorApplied ==
    (Compiled /\ IsFieldDoc(query_dict)
        /\ query_dict.dict[OnlyKey(query_dict)].k = "dict"
        /\ DOMAIN query_dict.dict[OnlyKey(query_dict)].dict # {}
        /\ \A op \in DOMAIN query_dict.dict[OnlyKey(query_dict)].dict :
              /\ op \in FieldLevelOperators
              /\ WellShaped(op, query_dict.dict[OnlyKey(query_dict)].dict[op])) =>
        LET f == OnlyKey(query_dict)
            m == query_dict.dict[f].dict
        IN /\ parsed.t = "ok"
           /\ Conjuncts(parsed.v) = {Comparison(op, f, m[op]) : op \in DOMAIN m}
           /\ ConjunctCount(parsed.v) = Cardinality(DOMAIN m)

\* C6 for the operators that have both a validator and an entry in the
\* operator table
C6_KnownOperatorsApplied ==
    (Compiled /\ IsFieldDoc(query_dict)
        /\ query_dict.dict[OnlyKey(query_dict)].k = "dict"
        /\ DOMAIN query_dict.dict[OnlyKey(query_dict)].dict # {}
        /\ \A op \in DOMAIN query_dict.dict[OnlyKey(query_dict)].dict :
              /\ op \in (ValidatedTokens \cap OperatorTokens) \ {"$and", "$or", "$not"}
              /\ WellShaped(op, query_dict.dict[OnlyKey(query_dict)].dict[op])) =>
        LET f == OnlyKey(query_dict)
            m == query_dict.dict[f].dict
        IN /\ parsed.t = "ok"
           /\ Conjuncts(parsed.v) = {Comparison(op, f, m[op]) : op \in DOMAIN m}
           /\ ConjunctCount(parsed.v) = Cardinality(DOMAIN m)

\* the keys of the top level of query_dict that are compiled, and what each
\* contributes: the outcomes of its operator parser for an operator key, of
\* the recursive call for a field key
MatchedKeys == step_keys(query_dict.dict) \cup inner_keys(query_dict.dict, accepted_set)
Contribution(key) ==
    IF key \in op_set
    THEN op_parsers(key, query_dict.dict[key], accepted_set, NoParent)
    ELSE conditions_parser(shorthand(query_dict.dict[key]), accepted_set, key)

\* the conjunctions of one contribution of each key, as the set of their
\* conjuncts and the number of them
RECURSIVE Conjunctions(_)
Conjunctions(keys) ==
    IF keys = {} THEN {[conjuncts |-> {}, count |-> 0]}
    ELSE LET key == CHOOSE x \in keys : TRUE
         IN {[conjuncts |-> c.conjuncts \cup Conjuncts(o.v), count |-> c.count + ConjunctCount(o.v)] :
                c \in Conjunctions(keys \ {key}), o \in Contribution(key)}

\* the OR nodes of a predicate
RECURSIVE OrNodes(_)
OrNodes(q) ==
    CASE q.n = "or" -> {q} \cup OrNodes(q.l) \cup OrNodes(q.r)
      [] q.n = "and" -> OrNodes(q.l) \cup OrNodes(q.r)
      [] q.n = "not" -> OrNodes(q.x)
      [] OTHER -> {}

\* the values of the $or keys of a document, at every level
RECURSIVE OrValues(_)
OrValues(v) ==
    CASE v.k = "dict" ->
            UNION {(IF key = "$or" THEN {v.dict[key]} ELSE {}) \cup OrValues(v.dict[key]) :
                     key \in DOMAIN v.dict}
      [] v.k = "list" -> UNION {OrValues(v.list[i]) : i \in 1..Len(v.list)}
      [] OTHER -> {}

\* C7: when every compiled key of the document contributes a predicate, the
\* result is the conjunction of those contributions, each taken once,
\* whatever the order of the keys; and every OR node of the result is what a
\* $or key of the document makes of its own list, or of the leading elements
\* of it (the list is folded from the left).
C7_ConjunctionOfKeys ==
    (Compiled /\ MatchedKeys # {}
        /\ \A key \in MatchedKeys : \A o \in Contribution(key) : o.t = "ok" /\ o.v # NoneQ) =>
        /\ parsed.t = "ok"
        /\ [conjuncts |-> Conjuncts(parsed.v), count |-> ConjunctCount(parsed.v)]
              \in Conjunctions(MatchedKeys)
        /\ \A node \in OrNodes(parsed.v) :
              \E value \in OrValues(query_dict) :
                  /\ value.k = "list"
                  /\ \E n \in 2..Len(value.list) :
                        Ok(node) \in glue_op_parser("$or", ListV(SubSeq(value.list, 1, n)), accepted_set)

C7_Witness ==
    /\ Compiled
    /\ query_dict = DictV(Merge(
          Dict2("str", StrV("bar"), "int", DictV(Dict1("$gt", IntV(0)))),
          Dict2("$not", DictV(Dict1("int", DictV(Dict1("$in", ListV(<<IntV(0), IntV(MaxInt)>>))))),
                "$or", ListV(<<StrBar, IntGt0>>))))
    /\ accepted_set = {"str", "int"}
    /\ parsed.t = "ok"
    /\ ConjunctCount(parsed.v) = 4

\* C8: a value of the wrong type under a type-checked operator raises the
\* QueryError of that operator with the value as it was given: $in with a
\* value that is no list and $exists with a value that is no boolean, under
\* an allowed field, and $not with a value that is no mapping.
C8_TypeCheckedOperators ==
    /\ (Compiled /\ IsFieldDoc(query_dict) /\ query_dict.dict[OnlyKey(query_dict)].k = "dict") =>
          LET m == query_dict.dict[OnlyKey(query_dict)].dict
          IN /\ (DOMAIN m = {"$in"} /\ m["$in"].k # "list") => parsed = QueryError("$in", m["$in"])
             /\ (DOMAIN m = {"$exists"} /\ m["$exists"].k # "bool") =>
                    parsed = QueryError("$exists", m["$exists"])
    /\ (Compiled /\ DOMAIN query_dict.dict = {"$not"} /\ query_dict.dict["$not"].k # "dict") =>
          parsed = QueryError("$not", query_dict.dict["$not"])

C8_Witness ==
    /\ Compiled
    /\ query_dict = DictV(Dict1("int", DictV(Dict1("$exists", IntV(MaxInt)))))
    /\ accepted_set = {"int"}
    /\ parsed = QueryError("$exists", IntV(MaxInt))
    /\ where_param # NoRequest
    /\ response_status = 400

\* C9: a value of $and or $or that is no list, or a list with an element
\* that is no mapping, raises the QueryError of the glue token with that
\* value, and no other exception.
C9_GlueShape ==
    \A glue \in {"$and", "$or"} :
        (Compiled /\ DOMAIN query_dict.dict = {glue}
            /\ \E o \in validate_glue(query_dict.dict[glue]) : o.t = "raise") =>
            parsed = QueryError(glue, query_dict.dict[glue])

\* C9 for the values that are no list
C9_GlueNotAList ==
    \A glue \in {"$and", "$or"} :
        (Compiled /\ DOMAIN query_dict.dict = {glue} /\ query_dict.dict[glue].k # "list") =>
            parsed = QueryError(glue, query_dict.dict[glue])

OrderingOperators == {"$lt", "$gt", "$le", "$lte", "$ge", "$gte"}
OrderingPrimitive(op) ==
    CASE op = "$lt" -> "lt" [] op = "$gt" -> "gt"
      [] op \in {"$le", "$lte"} -> "le" [] op \in {"$ge", "$gte"} -> "ge"

\* C10: under an allowed field an ordering operator compiles a number or a
\* datetime to its comparison and raises its QueryError for every other
\* value ($le as $lte, $ge as $gte); a string holding an ISO datetime is
\* left open.
C10_OrderingValues ==
    (Compiled /\ IsFieldDoc(query_dict)
        /\ query_dict.dict[OnlyKey(query_dict)].k = "dict"
        /\ Cardinality(DOMAIN query_dict.dict[OnlyKey(query_dict)].dict) = 1
        /\ OnlyKey(query_dict.dict[OnlyKey(query_dict)]) \in OrderingOperators) =>
        LET f == OnlyKey(query_dict)
            op == OnlyKey(query_dict.dict[f])
            v == query_dict.dict[f].dict[op]
        IN /\ v.k \in {"int", "float", "datetime"} =>
                parsed = Ok(Leaf(OrderingPrimitive(op), f, v, NoCase))
           /\ (v.k \in {"bool", "NoneType", "list", "dict"} \/ v = StrV("bar")) =>
                parsed = QueryError(op, v)

\* C10 with the booleans among the accepted values
C10_OrderingValuesWithBool ==
    (Compiled /\ IsFieldDoc(query_dict)
        /\ query_dict.dict[OnlyKey(query_dict)].k = "dict"
        /\ Cardinality(DOMAIN query_dict.dict[OnlyKey(query_dict)].dict) = 1
        /\ OnlyKey(query_dict.dict[OnlyKey(query_dict)]) \in OrderingOperators) =>
        LET f == OnlyKey(query_dict)
            op == OnlyKey(query_dict.dict[f])
            v == query_dict.dict[f].dict[op]
        IN IF v.k \in {"int", "float", "datetime", "bool"}
           THEN parsed = Ok(Leaf(OrderingPrimitive(op), f, v, NoCase))
           ELSE parsed = QueryError(op, v)

\* a document {f: {op: v}} of one allowed field and one operator
IsOperatorDoc(doc) ==
    /\ IsFieldDoc(doc)
    /\ doc.dict[OnlyKey(doc)].k = "dict"
    /\ Cardinality(DOMAIN doc.dict[OnlyKey(doc)].dict) = 1
OperatorOf(doc) == OnlyKey(doc.dict[OnlyKey(doc)])
OperandOf(doc) == doc.dict[OnlyKey(doc)].dict[OperatorOf(doc)]

\* the geometry kinds, and what makes a geometry operand ill-formed before
\* any geometry is built
KnownKinds == {"POINT", "LINE", "LINESTRING", "POLYGON"}
NamesKnownKind(type) == type.k = "str" /\ Upper(type.str) \in KnownKinds
IllFormedGeometry(v) ==
    \/ v.k # "dict"
    \/ DOMAIN v.dict # {"type", "coordinates"}
    \/ ~NamesKnownKind(v.dict["type"])
    \/ v.dict["coordinates"].k # "list"
IllFormedDWithin(v) ==
    \/ v.k # "dict"
    \/ DOMAIN v.dict # {"geometry", "distance"}
    \/ ~ValueTruthy(v.dict["distance"])
    \/ IllFormedGeometry(v.dict["geometry"])

\* C11: under an allowed field an ill-formed operand of a geometry operator
\* raises the QueryError of that operator with the operand as given, and a
\* well-formed one either compiles or, when the geometry constructor fails,
\* raises that same QueryError; no other exception leaves the compile.
C11_GeoShape ==
    (Compiled /\ IsOperatorDoc(query_dict)
        /\ OperatorOf(query_dict) \in GeoTokens \cup {"$geo.dwithin"}) =>
        LET op == OperatorOf(query_dict)
            v == OperandOf(query_dict)
            illformed == IF op = "$geo.dwithin" THEN IllFormedDWithin(v) ELSE IllFormedGeometry(v)
        IN /\ illformed => parsed = QueryError(op, v)
           /\ parsed.t = "raise" => parsed = QueryError(op, v)

\* C11 for the operands whose type, when there is one, is a string
StringTyped(v) ==
    (v.k = "dict" /\ "type" \in DOMAIN v.dict) => v.dict["type"].k = "str"
C11_GeoShapeStringType ==
    (Compiled /\ IsOperatorDoc(query_dict)
        /\ OperatorOf(query_dict) \in GeoTokens \cup {"$geo.dwithin"}) =>
        LET op == OperatorOf(query_dict)
            v == OperandOf(query_dict)
            illformed == IF op = "$geo.dwithin" THEN IllFormedDWithin(v) ELSE IllFormedGeometry(v)
            stringtyped ==
                IF op = "$geo.dwithin"
                THEN (v.k = "dict" /\ "geometry" \in DOMAIN v.dict) => StringTyped(v.dict["geometry"])
                ELSE StringTyped(v)
        IN stringtyped =>
            /\ illformed => parsed = QueryError(op, v)
            /\ parsed.t = "raise" => parsed = QueryError(op, v)

\* the geometry built directly from coordinates, as a caller of the data
\* layer writes it: Point(1, 2), Polygon((1, 2), (2, 1), (1, 2))
TupleOf(s) == [k |-> "tuple", tuple |-> s]
DirectArguments(coordinates) ==
    CASE coordinates = PointCoordinates -> <<IntV(MaxInt), IntV(2)>>
      [] coordinates = RingCoordinates ->
            <<TupleOf(<<IntV(1), IntV(2)>>), TupleOf(<<IntV(2), IntV(MaxInt)>>),
              TupleOf(<<IntV(1), IntV(2)>>)>>
      [] coordinates = NestedCoordinates ->
            <<TupleOf(<<TupleOf(<<IntV(0), IntV(1)>>), TupleOf(<<>>)>>), IntV(MaxInt)>>
      [] coordinates = ListV(<<>>) -> <<>>
DirectConstructor(type) ==
    CASE type \in {"point", "Point", "POINT"} -> "Point"
      [] type \in {"line", "linestring", "LineString"} -> "Line"
      [] type \in {"polygon", "POLYGON"} -> "Polygon"
DirectGeometry(literal) ==
    [k |-> "geometry",
     geometry |-> [helper |-> DirectConstructor(literal.dict["type"].str),
                   args |-> DirectArguments(literal.dict["coordinates"])]]
SpatialRelation(op) ==
    CASE op = "$geo.contains" -> "st_contains" [] op = "$geo.equals" -> "st_equals"
      [] op = "$geo.intersects" -> "st_intersects" [] op = "$geo.overlaps" -> "st_overlaps"
      [] op = "$geo.touches" -> "st_touches" [] op = "$geo.within" -> "st_within"

\* C12: under an allowed field a geometry operator with a well-formed
\* literal compiles, when the geometry constructor takes the coordinates, to
\* the operator's spatial relation of the field with the geometry built
\* directly from the coordinates (lists as tuples, order and nesting kept),
\* and $geo.dwithin to the distance relation with that geometry and the
\* given distance.
C12_GeoRoundTrip ==
    (Compiled /\ IsOperatorDoc(query_dict) /\ parsed.t = "ok") =>
        LET f == OnlyKey(query_dict)
            op == OperatorOf(query_dict)
            v == OperandOf(query_dict)
        IN /\ (op \in GeoTokens /\ v \in WellFormedLiterals) =>
                parsed.v = Leaf(SpatialRelation(op), f, DirectGeometry(v), NoCase)
           /\ (op = "$geo.dwithin" /\ v.k = "dict" /\ DOMAIN v.dict = {"geometry", "distance"}
                 /\ v.dict["geometry"] \in WellFormedLiterals) =>
                parsed.v = Leaf("st_dwithin", f,
                                TupleOf(<<DirectGeometry(v.dict["geometry"]), v.dict["distance"]>>),
                                NoCase)

C12_Witness ==
    /\ Compiled
    /\ query_dict = DictV(Dict1(GeoField, DictV(Dict1("$geo.within", Literal(StrV("POLYGON"), RingCoordinates)))))
    /\ accepted_set = {GeoField}
    /\ parsed.t = "ok"
    /\ parsed.v.prim = "st_within"
    /\ parsed.v.value.geometry.helper = "Polygon"
    /\ Len(parsed.v.value.geometry.args) = 3
    /\ parsed.v.value.geometry.args[2] = TupleOf(<<IntV(2), IntV(MaxInt)>>)

\* the fields a predicate is about
RECURSIVE FieldsOf(_)
FieldsOf(q) ==
    CASE q.n = "leaf" -> {q.field}
      [] q.n \in {"and", "or"} -> FieldsOf(q.l) \cup FieldsOf(q.r)
      [] q.n = "not" -> FieldsOf(q.x)
      [] OTHER -> {}

\* the operand has a shape the operator's validator, if it has one, accepts
ShapeAccepted(op, v) == op \in ValidatedTokens => \E o \in op_validators(op, v) : o.t = "ok"

\* C13: every field-level token of the vocabulary has a validator, a parser
\* and an entry in the operator table, and under an allowed field with a
\* well-shaped value it yields a predicate on that field, unless a geometry
\* constructor refuses the value: it is not skipped and no lookup fails.
C13_VocabularyKnown ==
    (Compiled /\ IsOperatorDoc(query_dict)
        /\ OperatorOf(query_dict) \in FieldLevelOperators
        /\ ShapeAccepted(OperatorOf(query_dict), OperandOf(query_dict))) =>
        LET f == OnlyKey(query_dict)
            op == OperatorOf(query_dict)
            v == OperandOf(query_dict)
        IN /\ op \in ValidatedTokens \cap ParserTokens \cap OperatorTokens
           /\ \/ parsed.t = "ok" /\ parsed.v # NoneQ /\ FieldsOf(parsed.v) = {f}
              \/ op \in GeoTokens \cup {"$geo.dwithin"} /\ parsed = QueryError(op, v)

\* C13 for the tokens that have a validator and an entry in the operator
\* table
C13_KnownTokensCompile ==
    (Compiled /\ IsOperatorDoc(query_dict)
        /\ OperatorOf(query_dict) \in FieldLevelOperators \cap ValidatedTokens \cap OperatorTokens
        /\ ShapeAccepted(OperatorOf(query_dict), OperandOf(query_dict))) =>
        LET f == OnlyKey(query_dict)
            op == OperatorOf(query_dict)
            v == OperandOf(query_dict)
        IN \/ parsed.t = "ok" /\ parsed.v # NoneQ /\ FieldsOf(parsed.v) = {f}
           \/ op \in GeoTokens \cup {"$geo.dwithin"} /\ parsed = QueryError(op, v)

\* pipe_request has returned, or an exception has left it
PipeDone == pc = "done" /\ where_param # NoRequest

\* the body of a 400 response for the filter parameter
ErrorBody(message) ==
    [t |-> "error_400", body |-> Dict1("errors", DictV(Dict1("where", message)))]

\* C14: when the filter parameter is absent or empty, or the allowed set is
\* empty, the filter stage decodes nothing, compiles nothing, leaves the
\* status as it is and calls next_pipe once, with the inbound dataset.
C14_PassThrough ==
    (PipeDone /\ (where_param \in {AbsentParam, EmptyParam} \/ accepted_set = {})) =>
        /\ query_dict = NotDecoded
        /\ parsed = NoOutcome
        /\ compile_accepted = NotRead
        /\ response_status = 200
        /\ next_pipe_calls = <<dbset>>
        /\ outcome = [t |-> "next_pipe", dbset |-> dbset]

C14_Witness ==
    /\ PipeDone
    /\ where_param = JsonParam(json_dump(IntGt0))
    /\ queryable_fields = <<>>
    /\ accepted_set = {}
    /\ next_pipe_calls = <<DBSet(AllRows)>>
    /\ outcome.t = "next_pipe"

\* the parameter is a non-empty string that is no JSON text of a mapping
NotAMapping(param) ==
    param = MalformedParam \/ ("text" \in DOMAIN param /\ param.text.j # "object")

\* C15: with a non-empty allowed set, a non-empty filter parameter that is no
\* JSON, or JSON of something else than a mapping, gives status 400 and the
\* body {errors: {where: "invalid value"}}; nothing is compiled and next_pipe
\* is not called.
C15_ParseLevelRejection ==
    (PipeDone /\ accepted_set # {} /\ NotAMapping(where_param)) =>
        /\ response_status = 400
        /\ outcome = ErrorBody(StrV("invalid value"))
        /\ query_dict = NotDecoded
        /\ parsed = NoOutcome
        /\ next_pipe_calls = <<>>

C15_Witness ==
    /\ PipeDone
    /\ where_param = JsonParam(JArray(<<JNumber(0), JNumber(MaxInt)>>))
    /\ accepted_set = {"int"}
    /\ response_status = 400
    /\ outcome.t = "error_400"

\* C16: when the compile raises QueryError(op, value) the filter stage gives
\* status 400 and the body {errors: {where: m}}, m the format
\* "Invalid {} condition: {!r}" filled with that op and that value; next_pipe
\* is not called.
C16_SemanticLevelRejection ==
    (PipeDone /\ parsed.t = "raise" /\ parsed.exc = "QueryError") =>
        /\ response_status = 400
        /\ outcome = ErrorBody([k |-> "str", str |-> "Invalid {} condition: {!r}",
                                args |-> <<parsed.op, parsed.value>>])
        /\ next_pipe_calls = <<>>

C16_Witness ==
    /\ PipeDone
    /\ query_dict = DictV(Dict1("int", DictV(Dict1("$in", IntV(0)))))
    /\ parsed = QueryError("$in", IntV(0))
    /\ response_status = 400
    /\ outcome.body["errors"].dict["where"].args = <<"$in", IntV(0)>>

\* C17: when the compile succeeds next_pipe is called once, with the inbound
\* dataset and the compiled predicate AND-combined onto the conditions it
\* has, or with the inbound dataset itself when the predicate is None; a
\* direct call of parse_conditions returns that dataset.
C17_ForwardScoped ==
    (pc = "done" /\ parsed # NoOutcome /\ parsed.t = "ok") =>
        LET forwarded == IF parsed.v = NoneQ THEN dbset
                         ELSE [query |-> And(dbset.query, parsed.v)]
        IN IF where_param = NoRequest
           THEN outcome = Ok(forwarded) /\ next_pipe_calls = <<>>
           ELSE /\ next_pipe_calls = <<forwarded>>
                /\ outcome = [t |-> "next_pipe", dbset |-> forwarded]
                /\ response_status = 200

C17_Witness ==
    /\ PipeDone
    /\ where_param = JsonParam(json_dump(IntGt0))
    /\ accepted_set = {"int"}
    /\ next_pipe_calls =
          <<[query |-> And(Leaf("ne", "id", NoneV, NoCase), Leaf("gt", "int", IntV(0), NoCase))]>>

\* The shape violations of a document, in the parts of it that are
\* compiled: an operand its operator's validator does not accept.
Sum(f) ==
    LET RECURSIVE Total(_)
        Total(S) == IF S = {} THEN 0 ELSE LET x == CHOOSE y \in S : TRUE IN f[x] + Total(S \ {x})
    IN Total(DOMAIN f)
RECURSIVE ViolationCount(_)
ViolationCount(doc) ==
    IF doc.k # "dict" THEN 0
    ELSE Sum([key \in DOMAIN doc.dict |->
            LET v == doc.dict[key]
            IN CASE key \in {"$and", "$or", "$not"} ->
                      IF ~ShapeAccepted(key, v) THEN 1
                      ELSE IF key = "$not" THEN ViolationCount(v)
                      ELSE Sum([i \in 1..Len(v.list) |-> ViolationCount(v.list[i])])
                 [] key \in ValidatedTokens \ {"$and", "$or", "$not"} ->
                      IF ShapeAccepted(key, v) THEN 0 ELSE 1
                 [] key \in accepted_set -> ViolationCount(v)
                 [] OTHER -> 0])
RECURSIVE Violations(_)
Violations(doc) ==
    IF doc.k # "dict" THEN {}
    ELSE UNION {
            LET v == doc.dict[key]
            IN CASE key \in {"$and", "$or", "$not"} ->
                      IF ~ShapeAccepted(key, v) THEN {QueryError(key, v)}
                      ELSE IF key = "$not" THEN Violations(v)
                      ELSE UNION {Violations(v.list[i]) : i \in 1..Len(v.list)}
                 [] key \in ValidatedTokens \ {"$and", "$or", "$not"} ->
                      IF ShapeAccepted(key, v) THEN {} ELSE {QueryError(key, v)}
                 [] key \in accepted_set -> Violations(v)
                 [] OTHER -> {} : key \in DOMAIN doc.dict}

\* C18: when the document has exactly one shape violation, at whatever
\* depth, the compile raises the QueryError of that violation, with its
\* operator and its value as given, and nothing else.
C18_ErrorPropagation ==
    (Compiled /\ ViolationCount(query_dict) = 1) => parsed \in Violations(query_dict)

\* C19: the accepted set of the filter stage is empty to begin with and,
\* after every assignment to query_allowed_fields, is the set of the names
\* of the list assigned last; a request through any of the pipelines that
\* filter (index, group, stats, sample) reads that set.
C19_AcceptedFollowsAssignment ==
    /\ accepted_set = ToSet(queryable_fields)
    /\ FilteringPipelines = {"index", "group", "stats", "sample"}
    /\ PipeDone =>
          /\ pipeline \in {"index", "group", "stats", "sample"}
          /\ check_accepted = ToSet(queryable_fields)
          /\ compile_accepted # NotRead => compile_accepted = ToSet(queryable_fields)
          /\ (check_accepted = {} /\ ValueTruthy(where_param)) => outcome = [t |-> "next_pipe", dbset |-> dbset]

C19_Witness ==
    /\ PipeDone
    /\ pipeline = "stats"
    /\ queryable_fields = <<"str", "int">>
    /\ compile_accepted = {"str", "int"}
    /\ parsed.t = "ok"
    /\ parsed.v # NoneQ

\* C20: a request evaluates its whole filter against one accepted set: the
\* set its condition read is the set passed to the compile, the result is
\* what compiling the document under that one set gives at every level, and
\* the set is the set of a list that was assigned, never a part of one.
C20_OneAcceptedSet ==
    PipeDone =>
        /\ check_accepted \in {ToSet(list) : list \in FieldLists \cup {<<>>}}
        /\ compile_accepted # NotRead =>
              /\ compile_accepted = check_accepted
              /\ parsed \in conditions_parser(query_dict, check_accepted, NoParent)

C20_Witness ==
    /\ PipeDone
    /\ queryable_fields = <<"int">>
    /\ check_accepted = {"int"}
    /\ compile_accepted = {"int"}
    /\ query_dict = DictV(Dict2("str", StrV("bar"), "int", IntV(0)))
    /\ parsed = Ok(Leaf("eq", "int", IntV(0), NoCase))

\* the conjunctions of the contributions of the keys that are not None
RECURSIVE NonNoneConjunctions(_)
NonNoneConjunctions(keys) ==
    IF keys = {} THEN {[conjuncts |-> {}, count |-> 0]}
    ELSE LET key == CHOOSE x \in keys : TRUE
         IN {IF o.v = NoneQ THEN c
             ELSE [conjuncts |-> c.conjuncts \cup Conjuncts(o.v),
                   count |-> c.count + ConjunctCount(o.v)] :
                c \in NonNoneConjunctions(keys \ {key}), o \in Contribution(key)}

\* C22: when every matched key of the document compiles, the result is the
\* AND of the contributions that are not None, each once, and it is None
\* only when every contribution is None.
C22_NoneIsIdentity ==
    (Compiled /\ MatchedKeys # {}
        /\ \A key \in MatchedKeys : \A o \in Contribution(key) : o.t = "ok") =>
        /\ parsed.t = "ok"
        /\ (IF parsed.v = NoneQ THEN [conjuncts |-> {}, count |-> 0]
            ELSE [conjuncts |-> Conjuncts(parsed.v), count |-> ConjunctCount(parsed.v)])
              \in NonNoneConjunctions(MatchedKeys)

\* a glue list of mappings that all compile, to a predicate or to None
GlueOfCompiling(doc, key) ==
    /\ DOMAIN doc.dict = {key}
    /\ doc.dict[key].k = "list"
    /\ \A i \in 1..Len(doc.dict[key].list) :
          /\ doc.dict[key].list[i].k = "dict"
          /\ \A o \in Compile(doc.dict[key].list[i]) : o.t = "ok"
CompilesToNone(doc) == Compile(doc) = {Ok(NoneQ)}

\* C23: in a glue list of two or more sub-documents one that compiles to no
\* predicate makes the glue result None, wherever it stands in the list, and
\* a list whose sub-documents all compile to no predicate gives None.
C23_NoneAbsorbsInGlue ==
    \A glue \in {"$and", "$or"} :
        (Compiled /\ GlueOfCompiling(query_dict, glue)) =>
            LET list == query_dict.dict[glue].list
            IN /\ (Len(list) >= 2 /\ \E i \in 1..Len(list) : CompilesToNone(list[i])) =>
                    parsed = Ok(NoneQ)
               /\ (Len(list) >= 1 /\ \A i \in 1..Len(list) : CompilesToNone(list[i])) =>
                    parsed = Ok(NoneQ)

C23_Witness ==
    /\ Compiled
    /\ query_dict = DictV(Dict1("$or", ListV(<<IntGt0, DictV(Dict1(UnknownField, IntV(0)))>>)))
    /\ accepted_set = {"int"}
    /\ parsed = Ok(NoneQ)

\* C24: {"$not": d} with a mapping d that compiles to no predicate raises an
\* error; it gives neither None nor a predicate.
C24_NotOfNothingRaises ==
    (Compiled /\ DOMAIN query_dict.dict = {"$not"}
        /\ query_dict.dict["$not"].k = "dict"
        /\ CompilesToNone(query_dict.dict["$not"])) =>
        parsed.t = "raise"

C24_Witness ==
    /\ Compiled
    /\ query_dict = DictV(Dict1("$not", DictV(Dict1(UnknownField, IntV(0)))))
    /\ accepted_set = {"str", "int"}
    /\ parsed = OtherError("TypeError")

\* C25: a glue operator with an empty list compiles without error and
\* contributes no predicate.
C25_EmptyGlue ==
    \A glue \in {"$and", "$or"} :
        (Compiled /\ DOMAIN query_dict.dict = {glue} /\ query_dict.dict[glue] = ListV(<<>>)) =>
            parsed = Ok(NoneQ)

\* what a call that returns leaves as it found it
CompileFrame ==
    (pc # "done" /\ pc' = "done") =>
        /\ accepted_set' = accepted_set
        /\ queryable_fields' = queryable_fields
        /\ dbset' = dbset
        /\ where_param' = where_param
        /\ where_param = NoRequest => query_dict' = query_dict

\* C26: a compile, whether it returns a predicate, returns None or raises,
\* leaves the document, the allowed set and the inbound dataset as they
\* were, so that what it gave is what compiling the same document under the
\* same set gives afterwards.  (The operator tables are definitions.)
C26_CompileHasNoEffect ==
    /\ [][CompileFrame]_vars
    /\ [](Compiled =>
            /\ query_dict.k = "dict"
            /\ parsed \in conditions_parser(query_dict, accepted_set, NoParent)
            /\ where_param = NoRequest => outcome = scoped(dbset, parsed))

C26_Witness ==
    /\ Compiled
    /\ where_param = NoRequest
    /\ query_dict = DictV(Dict2("str", StrV("bar"), "int", DictV(Dict1("$in", IntV(0)))))
    /\ accepted_set = {"str", "int"}
    /\ parsed = QueryError("$in", IntV(0))
    /\ dbset = DBSet(AllRows)

\* the nesting depth of a document: the mappings inside one another
RECURSIVE NestingDepth(_)
NestingDepth(v) ==
    CASE v.k = "dict" -> 1 + Max({0} \cup {NestingDepth(v.dict[key]) : key \in DOMAIN v.dict})
      [] v.k = "list" -> Max({0} \cup {NestingDepth(v.list[i]) : i \in 1..Len(v.list)})
      [] OTHER -> 0

\* C27: compiling a document makes its recursive calls on values nested in
\* it, or on the shorthand wrapper of a value that is no mapping, so the
\* depth of the recursion is at most the nesting depth of the document plus
\* one.
C27_RecursionBounded ==
    Compiled => conditions_parser_depth(query_dict, accepted_set) <= NestingDepth(query_dict) + 1

C27_Witness ==
    /\ Compiled
    /\ query_dict = Nest(MaxNesting)
    /\ accepted_set = {"int"}
    /\ conditions_parser_depth(query_dict, accepted_set) = MaxNesting + 2
    /\ NestingDepth(query_dict) = MaxNesting + 2
    /\ parsed.t = "ok"

\* C28: there is a maximum recursion depth, here one that the deepest
\* documents of the model exceed: compiling a document nested deeper fails
\* with a QueryError, which the filter stage answers with status 400.
C28_DepthLimit ==
    (Compiled /\ NestingDepth(query_dict) > MaxNesting) =>
        /\ parsed.t = "raise"
        /\ parsed.exc = "QueryError"
        /\ PipeDone => response_status = 400

\* C29: every request through the filter stage ends in one of three ways:
\* next_pipe called once with a dataset and no error status, status 400 with
\* the message "invalid value", or status 400 with the message of a
\* QueryError; no other exception leaves the stage, and next_pipe is not
\* called once an error status is set.
C29_StageTotal ==
    PipeDone =>
        \/ /\ outcome.t = "next_pipe"
           /\ next_pipe_calls = <<outcome.dbset>>
           /\ response_status = 200
        \/ /\ outcome = ErrorBody(StrV("invalid value"))
           /\ response_status = 400
           /\ next_pipe_calls = <<>>
        \/ /\ parsed # NoOutcome /\ parsed.t = "raise" /\ parsed.exc = "QueryError"
           /\ outcome = ErrorBody([k |-> "str", str |-> "Invalid {} condition: {!r}",
                                   args |-> <<parsed.op, parsed.value>>])
           /\ response_status = 400
           /\ next_pipe_calls = <<>>

\* C29 for the requests that no exception leaves
C29_ReturnsAreOfThreeKinds ==
    (PipeDone /\ outcome.t # "raise") =>
        \/ /\ outcome.t = "next_pipe"
           /\ next_pipe_calls = <<outcome.dbset>>
           /\ response_status = 200
        \/ /\ outcome.t = "error_400"
           /\ response_status = 400
           /\ next_pipe_calls = <<>>

\* the routed methods of the create, update and delete keys
RoutedMethods == <<functions_map["create"], functions_map["update"], functions_map["delete"]>>

\* C21: a module created without explicit use_save and use_destroy has
\* create, update and delete routed to _create_without_save,
\* _update_without_save and _delete_without_destroy; a module created with
\* use_save=True and use_destroy=True has them routed to _create, _update
\* and _delete.
C21_HandlerSelection ==
    /\ (module_kwargs.use_save = NoneV /\ module_kwargs.use_destroy = NoneV) =>
          RoutedMethods = <<"_create_without_save", "_update_without_save",
                            "_delete_without_destroy">>
    /\ (module_kwargs.use_save = BoolV(TRUE) /\ module_kwargs.use_destroy = BoolV(TRUE)) =>
          RoutedMethods = <<"_create", "_update", "_delete">>

\* C21 for the module with both options given as True
C21_ExplicitOptions ==
    (module_kwargs.use_save = BoolV(TRUE) /\ module_kwargs.use_destroy = BoolV(TRUE)) =>
        RoutedMethods = <<"_create", "_update", "_delete">>

\* what the code does without explicit options: the configured defaults decide
C21_DefaultsDecide ==
    (module_kwargs.use_save = NoneV /\ module_kwargs.use_destroy = NoneV) =>
        RoutedMethods = <<"_create", "_update", "_delete">>

\* a step that serves an update request
UpdateServed ==
    <<update_request, update_response, invoked>>' # <<update_request, update_response, invoked>>

\* what the claim asks of the request an Update step serves
UpdateProtocol ==
    /\ update_response'.status = 200 =>
          invoked' = before_update_callbacks \o <<Write>> \o after_update_callbacks
    /\ update_response'.status \in {404, 422} =>
          \A i \in DOMAIN invoked' : invoked'[i].hook # "after_update"

\* C30: for both update handlers, a successful update of an existing record
\* invokes every before_update callback once, in registration order, before
\* the write, then every after_update callback once, in registration order,
\* after the write, and no after_create callback; on 404 and on 422 no
\* after_update callback is invoked.
C30_UpdateCallbackProtocol ==
    [][UpdateServed => UpdateProtocol]_vars

\* C30 for the requests _update_without_save serves
C30_WithoutSaveProtocol ==
    [][(UpdateServed /\ update_request'.handler = "_update_without_save") => UpdateProtocol]_vars

====
